---- MODULE Spec2Model ----
(***************************************************************************)
(* Model of tools/optimizer/wasm.h: the Arena bump allocator, the          *)
(* expression node classes, the canonical printer and the children-first   *)
(* WasmWalker.                                                             *)
(***************************************************************************)
EXTENDS Integers, Sequences, FiniteSets, TLC

VARIABLES
  ndebug,     \* build flag: TRUE when assert() is compiled out (NDEBUG)
  trapUB,     \* build flag: TRUE when the compiler traps on flowing off the
              \* end of a value-returning function (printFullLine)
  heap,       \* node id -> Expression object (the objects the pointers name)
  body,       \* Function::body
  hooks,      \* "default": WasmWalker as is; "rewriter": a subclass overriding hooks
  stack,      \* call stack of startWalk / walk activations
  log,        \* hook invocations of the current startWalk, in order
  pc,         \* "idle" | "walking" | "done"
  walks,      \* number of startWalk calls so far
  start,      \* snapshot [heap, body] taken when the current startWalk began
  orig,       \* snapshot [heap, body] of the tree the producer handed over
  chunks,     \* Arena::chunks (sequence of chunk identities)
  index,      \* Arena::index
  regions,    \* regions returned by alloc since the last clear()
  lastOp,     \* the last Arena operation and what it observed
  allocs,     \* number of Arena operations so far
  pout        \* what printing the function body wrote, once it was printed

vars == <<ndebug, trapUB, heap, body, hooks, stack, log, pc, walks, start, orig,
          chunks, index, regions, lastOp, allocs, pout>>

walkVars  == <<heap, body, hooks, stack, log, pc, walks, start, orig>>
arenaVars == <<chunks, index, regions, lastOp, allocs>>
printVars == <<pout>>

-----------------------------------------------------------------------------
(* Bounds *)

MaxList   == 2   \* longest Block list / operand list / case list in the trees
MaxFresh  == 1   \* nodes a rewriting hook may allocate during the run
MaxWalks  == 2   \* startWalk calls per run
MaxAllocs == 5   \* Arena operations per run
MaxText   == 3   \* longest text returned by the number formatter

-----------------------------------------------------------------------------
(* Expression nodes *)

Null == 0

\* child pointer fields of each class, in declaration order
Fields(kind) ==
  CASE kind = "If"           -> <<"condition", "ifTrue", "ifFalse">>
    [] kind = "Loop"         -> <<"body">>
    [] kind = "Break"        -> <<"condition", "value">>
    [] kind = "Switch"       -> <<"value", "default_">>
    [] kind = "CallIndirect" -> <<"target">>
    [] kind = "SetLocal"     -> <<"value">>
    [] kind = "Load"         -> <<"ptr">>
    [] kind = "Store"        -> <<"ptr", "value">>
    [] kind = "Unary"        -> <<"value">>
    [] kind = "Binary"       -> <<"left", "right">>
    [] kind = "Compare"      -> <<"left", "right">>
    [] kind = "Convert"      -> <<"value">>
    [] OTHER                 -> <<>>

\* classes with an ExpressionList (Block::list, operands) or a case vector
HasList(kind) ==
  kind \in {"Block", "Switch", "Call", "CallImport", "CallIndirect", "Host"}

Range(s) == {s[i] : i \in DOMAIN s}

\* a reference to one child slot of a node
FieldRef(f)  == [f |-> f, i |-> 0]
ListRef(i)   == [f |-> "list", i |-> i]
ListRefs(node) == [i \in 1..Len(node.list) |-> ListRef(i)]

GetSlot(node, ref) ==
  IF ref.f = "list" THEN node.list[ref.i] ELSE node.s[ref.f]

\* a caller that discards the pointer walk() returned
SetSlotDiscards(node, ref, val) == node

\* "slot = <returned pointer>"
SetSlot(node, ref, val) ==
  IF ref.f = "list"
  THEN [node EXCEPT !.list[ref.i] = val]
  ELSE [node EXCEPT !.s[ref.f] = val]

\* class hierarchy: CallImport derives from Call, all else from Expression
IsA(kind, cls) == kind = cls \/ (kind = "CallImport" /\ cls = "Call")

-----------------------------------------------------------------------------
(* Canonical printer.  What a printing function writes to the stream is    *)
(* the sequence of the strings it writes (Colors are off); fatal records   *)
(* that it ended in abort() or a failed assert, after which nothing more   *)
(* is written.                                                             *)

Str(strs) == [text |-> strs, fatal |-> FALSE]
Abort     == [text |-> <<>>, fatal |-> TRUE]

\* first a, then b
Then(a, b) ==
  IF a.fatal THEN a ELSE [text |-> a.text \o b.text, fatal |-> b.fatal]

RECURSIVE Chain(_)
Chain(outs) ==
  IF outs = <<>> THEN Str(<<>>) ELSE Then(Head(outs), Chain(Tail(outs)))

RECURSIVE Cat(_)
Cat(strs) == IF strs = <<>> THEN "" ELSE Head(strs) \o Cat(Tail(strs))

doIndent(indent) == Str([i \in 1..indent |-> "  "])
\* incIndent writes the newline; the caller's indent becomes indent + 1
incIndent == Str(<<"\n">>)
\* a decIndent that forgets "indent--"
decIndentKeeps(indent) == Then(doIndent(indent), Str(<<")">>))

\* decIndent(o, indent) with the caller's indent: indent--, doIndent, ')'
\* (indent is at least 1 here: every decIndent follows an incIndent)
decIndent(indent) == Then(doIndent(indent - 1), Str(<<")">>))

\* operator<<(ostream, Name)
printName(name) == Str(<<"$", name>>)

printWasmType(type) ==
  CASE type = "none" -> "none"
    [] type = "i32"  -> "i32"
    [] type = "i64"  -> "i64"
    [] type = "f32"  -> "f32"
    [] type = "f64"  -> "f64"

\* a type derivation that ignores the float flag of 4-byte accesses
getWasmTypeNoFloat(size, float_) ==
  IF size <= 4 THEN "i32"
  ELSE IF size = 8 THEN (IF float_ THEN "f64" ELSE "i64")
  ELSE "abort"

getWasmType(size, float_) ==
  IF size < 4 THEN "i32"
  ELSE IF size = 4 THEN (IF float_ THEN "f32" ELSE "i32")
  ELSE IF size = 8 THEN (IF float_ THEN "f64" ELSE "i64")
  ELSE "abort"

\* a printDouble that forgets "text++" after writing "-0"
printDoubleKeepsSign(text) ==
  IF Len(text) >= 1 /\ text[1] = "."
  THEN <<"0">> \o text
  ELSE IF Len(text) >= 2 /\ text[1] = "-" /\ text[2] = "."
  THEN <<"-", "0">> \o text
  ELSE text

\* the characters printDouble writes for the text numToString returned
printDouble(text) ==
  IF Len(text) >= 1 /\ text[1] = "."
  THEN <<"0">> \o text
  ELSE IF Len(text) >= 2 /\ text[1] = "-" /\ text[2] = "."
  THEN <<"-", "0">> \o Tail(text)
  ELSE text

\* operator<<(ostream, Literal)
printLiteral(lit) ==
  Chain(<< Str(<<"(", printWasmType(lit.type), ".const ">>),
           CASE lit.type = "none" -> Abort
             [] lit.type \in {"i32", "i64"} -> Str(<<ToString(lit.i)>>)
             [] lit.type \in {"f32", "f64"} -> Str(printDouble(lit.text)),
           Str(<<")">>) >>)

\* "assert(!offset);"
assertNoOffset(offset) ==
  IF offset # 0 /\ ~ndebug THEN Abort ELSE Str(<<>>)

\* the part of Load::print before incIndent
LoadHead(a) ==
  LET ty == getWasmType(a.bytes, a.float_)
  IN  Chain(<< Str(<<"(">>),
               IF ty = "abort" THEN Abort ELSE Str(<<printWasmType(ty), ".load">>),
               IF a.bytes < 4
               THEN Then(IF a.bytes = 1 THEN Str(<<"8">>)
                         ELSE IF a.bytes = 2 THEN Str(<<"16">>)
                         ELSE Abort,
                         Str(<<IF a.signed_ THEN "_s" ELSE "_u">>))
               ELSE Str(<<>>),
               Str(<<" align=", ToString(a.align)>>),
               assertNoOffset(a.offset) >>)

\* the part of Store::print before incIndent
StoreHead(a) ==
  LET ty == getWasmType(a.bytes, a.float_)
  IN  Chain(<< Str(<<"(">>),
               IF ty = "abort" THEN Abort ELSE Str(<<printWasmType(ty), ".store">>),
               IF a.bytes < 4
               THEN IF a.bytes = 1 THEN Str(<<"8">>)
                    ELSE IF a.bytes = 2 THEN Str(<<"16">>)
                    ELSE Abort
               ELSE Str(<<>>),
               Str(<<" align=", ToString(a.align)>>),
               assertNoOffset(a.offset) >>)

UnaryOpText(op) ==
  CASE op = "Clz"   -> "clz"
    [] op = "Neg"   -> "neg"
    [] op = "Floor" -> "floor"
    [] OTHER        -> "abort"

BinaryOpText(op) ==
  CASE op = "Add"      -> "add"
    [] op = "Sub"      -> "sub"
    [] op = "Mul"      -> "mul"
    [] op = "DivS"     -> "div_s"
    [] op = "DivU"     -> "div_u"
    [] op = "RemS"     -> "rem_s"
    [] op = "RemU"     -> "rem_u"
    [] op = "And"      -> "and"
    [] op = "Or"       -> "or"
    [] op = "Xor"      -> "xor"
    [] op = "Shl"      -> "shl"
    [] op = "ShrU"     -> "shr_u"
    [] op = "ShrS"     -> "shr_s"
    [] op = "Div"      -> "div"
    [] op = "CopySign" -> "copysign"
    [] op = "Min"      -> "min"
    [] op = "Max"      -> "max"
    [] OTHER           -> "abort"

RelationalOpText(op) ==
  CASE op = "Eq"  -> "eq"
    [] op = "Ne"  -> "ne"
    [] op = "LtS" -> "lt_s"
    [] op = "LtU" -> "lt_u"
    [] op = "LeS" -> "le_s"
    [] op = "LeU" -> "le_u"
    [] op = "GtS" -> "gt_s"
    [] op = "GtU" -> "gt_u"
    [] op = "GeS" -> "ge_s"
    [] op = "GeU" -> "ge_u"
    [] op = "Lt"  -> "lt"
    [] op = "Le"  -> "le"
    [] op = "Gt"  -> "gt"
    [] op = "Ge"  -> "ge"
    [] OTHER      -> "abort"

ConvertOpText(op) ==
  CASE op = "ConvertUInt32" -> "f64.convert_u/i32"
    [] op = "ConvertSInt32" -> "f64.convert_s/i32"
    [] op = "TruncSFloat64" -> "i32.trunc_s/f64"
    [] OTHER                -> "abort"

\* "o << <op text>" or "default: abort();"
EmitOp(txt) == IF txt = "abort" THEN Abort ELSE Str(<<txt>>)

\* the parts of Unary/Binary/Compare/Convert::print before incIndent
\* (Unary::print writes no restoreNormalColor; with Colors off nothing differs)
UnaryHead(a) ==
  Then(Str(<<"(", printWasmType(a.type), ".">>), EmitOp(UnaryOpText(a.op)))
BinaryHead(a) ==
  Then(Str(<<"(", printWasmType(a.type), ".">>), EmitOp(BinaryOpText(a.op)))
\* a Compare::print that writes the output type instead of the operand type
CompareHeadOutputType(a) ==
  Then(Str(<<"(", printWasmType(a.type), ".">>),
       EmitOp(RelationalOpText(a.op)))

CompareHead(a) ==
  Then(Str(<<"(", printWasmType(a.inputType), ".">>),
       EmitOp(RelationalOpText(a.op)))
ConvertHead(a) == Then(Str(<<"(">>), EmitOp(ConvertOpText(a.op)))

RECURSIVE print(_, _, _)
RECURSIVE printLines(_, _, _)

\* printFullLine has no return statement although it returns std::ostream&
printFullLine(h, indent, e) ==
  Chain(<< doIndent(indent), print(h, e, indent), Str(<<"\n">>),
           IF trapUB THEN Abort ELSE Str(<<>>) >>)

\* printFullLine for each of es in turn
printLines(h, indent, es) ==
  IF es = <<>> THEN Str(<<>>)
  ELSE Then(printFullLine(h, indent, Head(es)), printLines(h, indent, Tail(es)))

\* incIndent; one full line per child; decIndent
printChildren(h, indent, es) ==
  Chain(<< incIndent, printLines(h, indent + 1, es), decIndent(indent + 1) >>)

\* "if (child) printFullLine(o, indent, child);"
IfPresent(e) == IF e # Null THEN <<e>> ELSE <<>>

\* Call::printBody
printBody(h, indent, node) ==
  Then(printName(node.attr.target),
       IF Len(node.list) > 0 THEN printChildren(h, indent, node.list)
       ELSE Str(<<")">>))

\* Expression::print, by the dynamic class of the node (virtual dispatch)
print(h, n, indent) ==
  LET node == h[n]
      a    == node.attr
      k    == IF n = Null THEN "null" ELSE node.kind
  IN  CASE k = "Nop" -> Str(<<"(", "nop", ")">>)
        [] k = "Block" ->
             Chain(<< Str(<<"(", "block">>),
                      IF a.name # "" THEN Then(Str(<<" ">>), printName(a.name))
                      ELSE Str(<<>>),
                      printChildren(h, indent, node.list) >>)
        [] k = "If" ->
             Then(Str(<<"(", "if">>),
                  printChildren(h, indent,
                                <<node.s.condition, node.s.ifTrue>>
                                  \o IfPresent(node.s.ifFalse)))
        [] k = "Loop" ->
             Chain(<< Str(<<"(", "loop">>),
                      IF a.out # ""
                      THEN Chain(<< Str(<<" ">>), printName(a.out),
                                    IF a.in # ""
                                    THEN Then(Str(<<" ">>), printName(a.in))
                                    ELSE Str(<<>>) >>)
                      ELSE Str(<<>>),
                      printChildren(h, indent, <<node.s.body>>) >>)
        [] k = "Break" ->
             Chain(<< Str(<<"(", "break ">>), printName(a.name),
                      printChildren(h, indent,
                                    IfPresent(node.s.condition)
                                      \o IfPresent(node.s.value)) >>)
        [] k = "Switch" ->
             Chain(<< Str(<<"(", "switch ">>), printName(a.name), incIndent,
                      printFullLine(h, indent + 1, node.s.value),
                      Str(<<"TODO: cases/default", "\n">>),
                      decIndent(indent + 1) >>)
        [] k = "Call" ->
             Then(Str(<<"(", "call ">>), printBody(h, indent, node))
        [] k = "CallImport" ->
             Then(Str(<<"(", "call_import ">>), printBody(h, indent, node))
        [] k = "CallIndirect" ->
             Chain(<< Str(<<"(", "call_indirect ">>), printName(a.fntype),
                      printChildren(h, indent, <<node.s.target>> \o node.list) >>)
        [] k = "GetLocal" ->
             Chain(<< Str(<<"(", "get_local ">>), printName(a.id), Str(<<")">>) >>)
        [] k = "SetLocal" ->
             Chain(<< Str(<<"(", "set_local ">>), printName(a.id),
                      printChildren(h, indent, <<node.s.value>>) >>)
        [] k = "Load" ->
             Then(LoadHead(a), printChildren(h, indent, <<node.s.ptr>>))
        [] k = "Store" ->
             Then(StoreHead(a),
                  printChildren(h, indent, <<node.s.ptr, node.s.value>>))
        [] k = "Const" -> printLiteral(a.value)
        [] k = "Unary" ->
             Then(UnaryHead(a), printChildren(h, indent, <<node.s.value>>))
        [] k = "Binary" ->
             Then(BinaryHead(a),
                  printChildren(h, indent, <<node.s.left, node.s.right>>))
        [] k = "Compare" ->
             Then(CompareHead(a),
                  printChildren(h, indent, <<node.s.left, node.s.right>>))
        [] k = "Convert" ->
             Then(ConvertHead(a), printChildren(h, indent, <<node.s.value>>))
        \* Label and Host do not override the pure virtual print; a null
        \* required child is dereferenced
        [] OTHER -> Abort

\* Function::print for a function $f without params, result or locals
printFunction(h, b) ==
  Chain(<< Str(<<"(", "func ">>), printName("f"), incIndent,
           printFullLine(h, 1, b), decIndent(1) >>)

-----------------------------------------------------------------------------
(* WasmWalker *)

\* the order of the dynamic_cast tests in walk()
CastChain ==
  << "Block", "If", "Loop", "Label", "Break", "Switch", "Call", "CallImport",
     "CallIndirect", "GetLocal", "SetLocal", "Load", "Store", "Const", "Unary",
     "Binary", "Compare", "Convert", "Host", "Nop" >>

\* the branch of walk() a node of the given dynamic class takes: the first
\* dynamic_cast that succeeds; "abort" when none does
Dispatch(kind) ==
  LET hits == {i \in DOMAIN CastChain : IsA(kind, CastChain[i])}
  IN  IF hits = {} THEN "abort"
      ELSE CastChain[CHOOSE i \in hits : \A j \in hits : i <= j]

\* the hook each branch of walk() ends with
HookOf(cls) ==
  CASE cls = "Block"        -> "walkBlock"
    [] cls = "If"           -> "walkIf"
    [] cls = "Loop"         -> "walkLoop"
    [] cls = "Label"        -> "walkLabel"
    [] cls = "Break"        -> "walkBreak"
    [] cls = "Switch"       -> "walkSwitch"
    [] cls = "Call"         -> "walkCall"
    [] cls = "CallImport"   -> "walkCallImport"
    [] cls = "CallIndirect" -> "walkCallIndirect"
    [] cls = "GetLocal"     -> "walkGetLocal"
    [] cls = "SetLocal"     -> "walkSetLocal"
    [] cls = "Load"         -> "walkLoad"
    [] cls = "Store"        -> "walkStore"
    [] cls = "Const"        -> "walkConst"
    [] cls = "Unary"        -> "walkUnary"
    [] cls = "Binary"       -> "walkBinary"
    [] cls = "Compare"      -> "walkCompare"
    [] cls = "Convert"      -> "walkConvert"
    [] cls = "Host"         -> "walkHost"
    [] cls = "Nop"          -> "walkNop"

\* a Binary branch that walks right before left
BinaryBranchSwapped == <<FieldRef("right"), FieldRef("left")>>

\* the Binary branch of walk(): left = walk(left); right = walk(right)
BinaryBranch == <<FieldRef("left"), FieldRef("right")>>

\* the child slots each branch of walk() walks, in the order it walks them
WalkSteps(cls, node) ==
  CASE cls = "Block"        -> ListRefs(node)
    [] cls = "If"           -> <<FieldRef("condition"), FieldRef("ifTrue"),
                                 FieldRef("ifFalse")>>
    [] cls = "Loop"         -> <<FieldRef("body")>>
    [] cls = "Break"        -> <<FieldRef("condition"), FieldRef("value")>>
    [] cls = "Switch"       -> <<FieldRef("value")>> \o ListRefs(node)
                                 \o <<FieldRef("default_")>>
    [] cls = "Call"         -> ListRefs(node)
    [] cls = "CallImport"   -> ListRefs(node)
    [] cls = "CallIndirect" -> <<FieldRef("target")>> \o ListRefs(node)
    [] cls = "SetLocal"     -> <<FieldRef("value")>>
    [] cls = "Load"         -> <<FieldRef("ptr")>>
    [] cls = "Store"        -> <<FieldRef("ptr"), FieldRef("value")>>
    [] cls = "Unary"        -> <<FieldRef("value")>>
    [] cls = "Binary"       -> BinaryBranch
    [] cls = "Compare"      -> <<FieldRef("left"), FieldRef("right")>>
    [] cls = "Convert"      -> <<FieldRef("value")>>
    [] cls = "Host"         -> ListRefs(node)
    [] OTHER                -> <<>>

\* a walk(nullptr) that hands back the function body instead of null
WalkOfNullBody(curr) == body

\* walk(nullptr): "if (!curr) return curr;"
WalkOfNull(curr) == curr

\* a default hook that drops the node
DefaultHookDrops(curr) == Null

\* the hooks of WasmWalker itself: "return curr;"
DefaultHook(curr) == curr

\* the node a rewriting hook allocates: a zero-valued i32 Const
FreshConst ==
  [kind |-> "Const",
   attr |-> [type |-> "i32", value |-> [type |-> "i32", i |-> 0, text |-> <<>>]],
   s |-> <<>>, list |-> <<>>]

FreshId == Cardinality(DOMAIN heap) + 1
FreshLeft == Cardinality(DOMAIN heap) - Cardinality(DOMAIN orig.heap) < MaxFresh

\* the present children of a node, in field order then list order
KidsOf(node) ==
  LET fs == Fields(node.kind)
      all == [i \in 1..Len(fs) |-> node.s[fs[i]]] \o node.list
  IN  SelectSeq(all, LAMBDA c : c # Null)

\* what a hook may return for curr: WasmWalker's own hooks return curr; an
\* overriding hook returns curr, one of curr's children, or a new node
HookChoices(curr) ==
  IF hooks = "default" THEN {"curr"}
  ELSE {"curr"}
       \cup (IF KidsOf(heap[curr]) # <<>> THEN {"child"} ELSE {})
       \cup (IF FreshLeft THEN {"fresh"} ELSE {})

HookResult(curr, choice) ==
  CASE choice = "curr"  -> DefaultHook(curr)
    [] choice = "child" -> KidsOf(heap[curr])[1]
    [] choice = "fresh" -> FreshId

Top == stack[Len(stack)]
Frame(n) == [node |-> n, cls |-> Dispatch(heap[n].kind), pos |-> 1]
TopSteps == WalkSteps(Top.cls, heap[Top.node])

\* startWalk(func): func->body = walk(func->body), entering walk()
StartWalk ==
  /\ pc \in {"idle", "done"}
  /\ walks < MaxWalks
  /\ walks' = walks + 1
  /\ start' = [heap |-> heap, body |-> body]
  /\ log' = <<>>
  /\ IF body = Null
     THEN /\ body' = WalkOfNull(body)
          /\ stack' = <<>>
          /\ pc' = "done"
     ELSE /\ Dispatch(heap[body].kind) # "abort"
          /\ stack' = <<Frame(body)>>
          /\ pc' = "walking"
          /\ body' = body
  /\ UNCHANGED <<heap, hooks, orig, ndebug, trapUB>>
  /\ UNCHANGED arenaVars /\ UNCHANGED printVars

\* slot = walk(slot) where the slot is null: no hook, the slot is reassigned
WalkNull ==
  /\ pc = "walking"
  /\ Top.pos <= Len(TopSteps)
  /\ LET ref == TopSteps[Top.pos]
         c   == GetSlot(heap[Top.node], ref)
     IN  /\ c = Null
         /\ heap' = [heap EXCEPT ![Top.node] = SetSlot(@, ref, WalkOfNull(c))]
         /\ stack' = [stack EXCEPT ![Len(stack)].pos = @ + 1]
  /\ UNCHANGED <<body, hooks, log, pc, walks, start, orig, ndebug, trapUB>>
  /\ UNCHANGED arenaVars /\ UNCHANGED printVars

\* slot = walk(slot) where the slot holds a node: the recursive call begins
WalkEnter ==
  /\ pc = "walking"
  /\ Top.pos <= Len(TopSteps)
  /\ LET c == GetSlot(heap[Top.node], TopSteps[Top.pos])
     IN  /\ c # Null
         /\ Dispatch(heap[c].kind) # "abort"
         /\ stack' = Append(stack, Frame(c))
  /\ UNCHANGED <<heap, body, hooks, log, pc, walks, start, orig, ndebug, trapUB>>
  /\ UNCHANGED arenaVars /\ UNCHANGED printVars

\* all children walked: "return walkX(cast);" and the caller's assignment of
\* the returned pointer (to the parent's slot, or to func->body in startWalk)
WalkHook ==
  /\ pc = "walking"
  /\ Top.pos > Len(TopSteps)
  /\ \E choice \in HookChoices(Top.node) :
       LET n    == Top.node
           r    == HookResult(n, choice)
           h1   == IF choice = "fresh" THEN heap @@ (FreshId :> FreshConst)
                   ELSE heap
           rest == SubSeq(stack, 1, Len(stack) - 1)
       IN  /\ log' = Append(log, [hook |-> HookOf(Top.cls), node |-> n,
                                  ret |-> r, seen |-> heap[n]])
           /\ IF rest = <<>>
              THEN /\ body' = r
                   /\ heap' = h1
                   /\ stack' = <<>>
                   /\ pc' = "done"
              ELSE LET par == rest[Len(rest)]
                       ref == WalkSteps(par.cls, heap[par.node])[par.pos]
                   IN  /\ heap' = [h1 EXCEPT ![par.node] = SetSlot(@, ref, r)]
                       /\ stack' = [rest EXCEPT ![Len(rest)].pos = @ + 1]
                       /\ UNCHANGED <<body, pc>>
  /\ UNCHANGED <<hooks, walks, start, orig, ndebug, trapUB>>
  /\ UNCHANGED arenaVars /\ UNCHANGED printVars

-----------------------------------------------------------------------------
(* Arena *)

CHUNK == 10000

\* sizeof(T) of the objects allocated
Sizes == {1, 8, 4992, 5008, 9992, 9999}

\* values the uninitialized Arena::index may hold after construction
Garbage == {-8, 0, 5, 9999}

\* a size computation that forgets the alignment
RoundUpNone(size) == size

\* "(sizeof(T) + 7) & (-8)"
RoundUp(size) == ((size + 7) \div 8) * 8

\* a room test with > in place of >=
NeedsChunkStrict(n, idx, currSize) == n = 0 \/ idx + currSize > CHUNK

\* "chunks.size() == 0 || index + currSize >= CHUNK"
NeedsChunk(n, idx, currSize) == n = 0 \/ idx + currSize >= CHUNK

ArenaRunning == lastOp.op # "abort" /\ allocs < MaxAllocs

\* alloc<T>() with sizeof(T) = size
Alloc ==
  /\ ArenaRunning
  /\ \E size \in Sizes :
       LET currSize == RoundUp(size)
           fresh    == NeedsChunk(Len(chunks), index, currSize)
           chunks1  == IF fresh THEN Append(chunks, Len(chunks) + 1) ELSE chunks
           index1   == IF fresh THEN 0 ELSE index
       IN  /\ ndebug \/ currSize < CHUNK
           /\ chunks' = chunks1
           /\ index' = index1 + currSize
           /\ regions' = Append(regions, [chunk |-> chunks1[Len(chunks1)],
                                          start |-> index1, size |-> size,
                                          currSize |-> currSize])
           /\ lastOp' = [op |-> "alloc", size |-> size, currSize |-> currSize,
                         chunksBefore |-> Len(chunks), indexBefore |-> index]
  /\ allocs' = allocs + 1
  /\ UNCHANGED <<ndebug, trapUB>> /\ UNCHANGED walkVars /\ UNCHANGED printVars

\* alloc<T>() stopped by "assert(currSize < CHUNK)"
AllocAssertFails ==
  /\ ArenaRunning
  /\ ~ndebug
  /\ \E size \in Sizes :
       /\ ~(RoundUp(size) < CHUNK)
       /\ lastOp' = [op |-> "abort", size |-> size, currSize |-> RoundUp(size),
                     chunksBefore |-> Len(chunks), indexBefore |-> index]
  /\ allocs' = allocs + 1
  /\ UNCHANGED <<chunks, index, regions, ndebug, trapUB>>
  /\ UNCHANGED walkVars /\ UNCHANGED printVars

\* clear(): every chunk is deleted; index is left as it is
Clear ==
  /\ ArenaRunning
  /\ chunks' = <<>>
  /\ regions' = <<>>
  /\ lastOp' = [op |-> "clear", size |-> 0, currSize |-> 0,
                chunksBefore |-> Len(chunks), indexBefore |-> index]
  /\ allocs' = allocs + 1
  /\ UNCHANGED <<index, ndebug, trapUB>>
  /\ UNCHANGED walkVars /\ UNCHANGED printVars

-----------------------------------------------------------------------------
(* The trees a producer hands over: terms, laid out in the heap *)

NoTerm == [kind |-> "null"]
Tm(kind, attr, s, list) == [kind |-> kind, attr |-> attr, s |-> s, list |-> list]

I32Lit(v) == [type |-> "i32", i |-> v, text |-> <<>>]

NopT         == Tm("Nop", [type |-> "none"], <<>>, <<>>)
LabelT       == Tm("Label", [type |-> "none", name |-> "l"], <<>>, <<>>)
ConstT       == Tm("Const", [type |-> "i32", value |-> I32Lit(1)], <<>>, <<>>)
GetLocalT    == Tm("GetLocal", [type |-> "i32", id |-> "x"], <<>>, <<>>)
BlockT(l)    == Tm("Block", [type |-> "none", name |-> ""], <<>>, l)
IfT(c, t, f) == Tm("If", [type |-> "none"],
                   [condition |-> c, ifTrue |-> t, ifFalse |-> f], <<>>)
LoopT(b)     == Tm("Loop", [type |-> "none", out |-> "o", in |-> "i"],
                   [body |-> b], <<>>)
BreakT(c, v) == Tm("Break", [type |-> "none", name |-> "o"],
                   [condition |-> c, value |-> v], <<>>)
SwitchT(v, cs, d) == Tm("Switch", [type |-> "none", name |-> "s"],
                        [value |-> v, default_ |-> d], cs)
CallT(l)       == Tm("Call", [type |-> "i32", target |-> "f"], <<>>, l)
CallImportT(l) == Tm("CallImport", [type |-> "i32", target |-> "g"], <<>>, l)
CallIndirectT(t, l) == Tm("CallIndirect", [fntype |-> "t"], [target |-> t], l)
SetLocalT(v)   == Tm("SetLocal", [type |-> "i32", id |-> "x"], [value |-> v], <<>>)
LoadT(b, sg, fl, off, p) ==
  Tm("Load", [type |-> "i32", bytes |-> b, signed_ |-> sg, float_ |-> fl,
              offset |-> off, align |-> b], [ptr |-> p], <<>>)
StoreT(b, fl, off, p, v) ==
  Tm("Store", [type |-> "i32", bytes |-> b, float_ |-> fl, offset |-> off,
               align |-> b], [ptr |-> p, value |-> v], <<>>)
UnaryT(ty, op, v)   == Tm("Unary", [type |-> ty, op |-> op], [value |-> v], <<>>)
BinaryT(ty, op, l, r) ==
  Tm("Binary", [type |-> ty, op |-> op], [left |-> l, right |-> r], <<>>)
\* Compare(): "type = WasmType::i32; // output is always i32"
CompareT(ity, op, l, r) ==
  Tm("Compare", [type |-> "i32", op |-> op, inputType |-> ity],
     [left |-> l, right |-> r], <<>>)
ConvertT(ty, op, v) == Tm("Convert", [type |-> ty, op |-> op], [value |-> v], <<>>)
HostT(l)            == Tm("Host", [type |-> "i32", op |-> "PageSize"], <<>>, l)

\* children of a term: the pointer fields in declaration order, then the list
KidsT(t) ==
  LET fs == Fields(t.kind)
  IN  [i \in 1..Len(fs) |-> t.s[fs[i]]] \o t.list

RECURSIVE Size(_)
Size(t) ==
  IF t.kind = "null" THEN 0
  ELSE LET ks == KidsT(t)
           RECURSIVE Sum(_)
           Sum(i) == IF i = 0 THEN 0 ELSE Size(ks[i]) + Sum(i - 1)
       IN  1 + Sum(Len(ks))

\* the heap objects of term t, its root at address id
RECURSIVE Flatten(_, _)
Flatten(t, id) ==
  LET ks == KidsT(t)
      fs == Fields(t.kind)
      RECURSIVE Before(_)
      Before(i) == IF i = 1 THEN 0 ELSE Size(ks[i - 1]) + Before(i - 1)
      at(i)   == IF ks[i].kind = "null" THEN Null ELSE id + 1 + Before(i)
      fidx(f) == CHOOSE i \in 1..Len(fs) : fs[i] = f
      node == [kind |-> t.kind, attr |-> t.attr,
               s    |-> [f \in Range(fs) |-> at(fidx(f))],
               list |-> [i \in 1..Len(t.list) |-> at(Len(fs) + i)]]
      RECURSIVE Rest(_)
      Rest(i) == IF i = 0 THEN <<>>
                 ELSE IF ks[i].kind = "null" THEN Rest(i - 1)
                 ELSE Flatten(ks[i], at(i)) @@ Rest(i - 1)
  IN  (id :> node) @@ Rest(Len(ks))

Leaves == {ConstT, GetLocalT}
Opt    == Leaves \cup {NoTerm}
Lists  == UNION {[1..n -> Leaves] : n \in 0..MaxList}

\* one node of every class over leaf children, optional slots present or absent
ShallowTerms ==
  {NopT, LabelT, ConstT, GetLocalT}
  \cup {BlockT(l) : l \in Lists}
  \cup {IfT(ConstT, t, f) : t \in Leaves, f \in Opt}
  \cup {LoopT(b) : b \in Leaves}
  \cup {BreakT(c, v) : c \in Opt, v \in Opt}
  \cup {SwitchT(GetLocalT, cs, ConstT) : cs \in Lists}
  \cup {CallT(l) : l \in Lists}
  \cup {CallImportT(l) : l \in Lists}
  \cup {CallIndirectT(GetLocalT, l) : l \in Lists}
  \cup {SetLocalT(v) : v \in Leaves}
  \cup {LoadT(4, TRUE, FALSE, 0, p) : p \in Leaves}
  \cup {StoreT(4, FALSE, 0, GetLocalT, v) : v \in Leaves}
  \cup {UnaryT("i32", "Clz", v) : v \in Leaves}
  \cup {BinaryT("i32", "Add", l, ConstT) : l \in Leaves}
  \cup {CompareT("i32", "Eq", GetLocalT, r) : r \in Leaves}
  \cup {ConvertT("f64", "ConvertSInt32", v) : v \in Leaves}
  \cup {HostT(l) : l \in Lists}

\* nested trees
DeepTerms ==
  { BlockT(<< IfT(CompareT("i32", "LtS", GetLocalT, ConstT),
                  BreakT(NoTerm, NoTerm), NoTerm),
              LoopT(GetLocalT) >>),
    LoopT(StoreT(4, FALSE, 0, GetLocalT,
                 BinaryT("i32", "Add", GetLocalT, ConstT))),
    SwitchT(UnaryT("i32", "Clz", LoadT(1, TRUE, FALSE, 0, GetLocalT)),
            << NopT, CallImportT(<<ConstT>>) >>, LabelT),
    SetLocalT(CallIndirectT(GetLocalT,
                            << ConvertT("f64", "ConvertSInt32", ConstT) >>)),
    CallT(<< HostT(<<ConstT>>), CallImportT(<<>>) >>),
    IfT(NopT, BreakT(NoTerm, GetLocalT), NoTerm) }

Terms == ShallowTerms \cup DeepTerms

NoArena == /\ chunks = <<>> /\ index = 0 /\ regions = <<>>
           /\ lastOp = [op |-> "none"] /\ allocs = 0
NotPrinted == [done |-> FALSE, text |-> <<>>, fatal |-> FALSE]
NoPrint == pout = NotPrinted
NoWalk  == /\ heap = <<>> /\ body = Null /\ hooks = "default" /\ stack = <<>>
           /\ log = <<>> /\ pc = "idle" /\ walks = 0
           /\ start = [heap |-> <<>>, body |-> Null]
           /\ orig = [heap |-> <<>>, body |-> Null]

\* the walker never prints; the build flags only matter to the printer
InitWalk ==
  /\ ndebug = FALSE
  /\ trapUB = FALSE
  /\ \E t \in Terms :
       /\ heap = Flatten(t, 1)
       /\ body = 1
  /\ hooks \in {"default", "rewriter"}
  /\ stack = <<>>
  /\ log = <<>>
  /\ pc = "idle"
  /\ walks = 0
  /\ start = [heap |-> heap, body |-> body]
  /\ orig = [heap |-> heap, body |-> body]
  /\ NoArena /\ NoPrint

NextWalk == StartWalk \/ WalkNull \/ WalkEnter \/ WalkHook

SpecWalk == InitWalk /\ [][NextWalk]_vars

\* walk() is straight-line code: once called it keeps running
FairSpecWalk == SpecWalk /\ WF_vars(WalkNull \/ WalkEnter \/ WalkHook)

InitArena ==
  /\ ndebug \in BOOLEAN
  /\ trapUB = FALSE
  /\ chunks = <<>>
  /\ index \in Garbage
  /\ regions = <<>>
  /\ lastOp = [op |-> "none"]
  /\ allocs = 0
  /\ NoWalk /\ NoPrint

NextArena == Alloc \/ AllocAssertFails \/ Clear

SpecArena == InitArena /\ [][NextArena]_vars

-----------------------------------------------------------------------------
(* Printing single expressions *)

WasmTypes     == {"none", "i32", "i64", "f32", "f64"}
UnaryOps      == {"Clz", "Ctz", "Popcnt", "Neg", "Abs", "Ceil", "Floor",
                  "Trunc", "Nearest", "Sqrt"}
BinaryOps     == {"Add", "Sub", "Mul", "DivS", "DivU", "RemS", "RemU", "And",
                  "Or", "Xor", "Shl", "ShrU", "ShrS", "Div", "CopySign", "Min",
                  "Max"}
RelationalOps == {"Eq", "Ne", "LtS", "LtU", "LeS", "LeU", "GtS", "GtU", "GeS",
                  "GeU", "Lt", "Le", "Gt", "Ge"}
ConvertOps    == {"ExtendSInt32", "ExtendUInt32", "WrapInt64", "TruncSFloat32",
                  "TruncUFloat32", "TruncSFloat64", "TruncUFloat64",
                  "ReinterpretFloat", "ConvertSInt32", "ConvertUInt32",
                  "ConvertSInt64", "ConvertUInt64", "PromoteFloat32",
                  "DemoteFloat64", "ReinterpretInt"}

\* characters of the texts numToString returns, and those texts
Chars == {"-", ".", "5"}
Texts == UNION {[1..n -> Chars] : n \in 0..MaxText}

FloatLit(ty, text) == [type |-> ty, i |-> 0, text |-> text]
ConstOf(lit) == Tm("Const", [type |-> lit.type, value |-> lit], <<>>, <<>>)

\* accesses below other forms, with and without an offset
NestedAccessTerms ==
  {BlockT(<<NopT, LoadT(4, TRUE, FALSE, off, GetLocalT)>>) : off \in {0, 8}}
  \cup {SetLocalT(LoadT(2, FALSE, FALSE, off, GetLocalT)) : off \in {0, 8}}
  \cup {IfT(ConstT, StoreT(8, TRUE, off, GetLocalT, ConstT), NopT) :
          off \in {0, 8}}
  \cup {StoreT(4, FALSE, 0, GetLocalT, LoadT(1, TRUE, FALSE, off, GetLocalT)) :
          off \in {0, 8}}

PrintTerms ==
  {LoadT(b, sg, fl, off, GetLocalT) :
     b \in {1, 2, 3, 4, 8}, sg \in BOOLEAN, fl \in BOOLEAN, off \in {0, 8}}
  \cup {StoreT(b, fl, off, GetLocalT, ConstT) :
          b \in {1, 2, 3, 4, 8}, fl \in BOOLEAN, off \in {0, 8}}
  \cup {UnaryT(ty, op, GetLocalT) : ty \in WasmTypes, op \in UnaryOps}
  \cup {BinaryT(ty, op, GetLocalT, ConstT) : ty \in WasmTypes, op \in BinaryOps}
  \cup {CompareT(ty, op, GetLocalT, ConstT) :
          ty \in WasmTypes, op \in RelationalOps}
  \cup {ConvertT(ty, op, GetLocalT) : ty \in WasmTypes, op \in ConvertOps}
  \cup {ConstOf(FloatLit(ty, t)) : ty \in {"f32", "f64"}, t \in Texts}
  \cup {ConstOf(I32Lit(v)) : v \in {-7, 0, 1}}
  \cup Terms
  \cup NestedAccessTerms

InitPrint ==
  /\ ndebug \in BOOLEAN
  /\ trapUB \in BOOLEAN
  /\ \E t \in PrintTerms :
       /\ heap = Flatten(t, 1)
       /\ body = 1
  /\ hooks = "default"
  /\ stack = <<>>
  /\ log = <<>>
  /\ pc = "idle"
  /\ walks = 0
  /\ start = [heap |-> heap, body |-> body]
  /\ orig = [heap |-> heap, body |-> body]
  /\ NoArena /\ NoPrint

\* body->print(o, 0)
PrintBody ==
  /\ ~pout.done
  /\ pout' = [done |-> TRUE] @@ print(heap, body, 0)
  /\ UNCHANGED <<ndebug, trapUB>> /\ UNCHANGED walkVars /\ UNCHANGED arenaVars

NextPrint == PrintBody

SpecPrint == InitPrint /\ [][NextPrint]_vars

-----------------------------------------------------------------------------
(* Properties of the walker *)

\* the nodes of the subtree rooted at n
RECURSIVE Sub(_, _)
Sub(h, n) ==
  IF n = Null THEN {}
  ELSE {n} \cup UNION {Sub(h, c) : c \in Range(KidsOf(h[n]))}

StartTree == Sub(start.heap, start.body)
Hooked    == {log[i].node : i \in DOMAIN log}
LogPos(n) == CHOOSE i \in DOMAIN log : log[i].node = n

\* the children of a node in the order of the variant table
TableChildren(node) ==
  LET k == node.kind
      all == CASE k = "If"     -> <<node.s.condition, node.s.ifTrue, node.s.ifFalse>>
               [] k = "Loop"   -> <<node.s.body>>
               [] k = "Break"  -> <<node.s.condition, node.s.value>>
               [] k = "Switch" -> <<node.s.value>> \o node.list \o <<node.s.default_>>
               [] k = "CallIndirect" -> <<node.s.target>> \o node.list
               [] k = "SetLocal" -> <<node.s.value>>
               [] k = "Load"   -> <<node.s.ptr>>
               [] k = "Store"  -> <<node.s.ptr, node.s.value>>
               [] k \in {"Unary", "Convert"} -> <<node.s.value>>
               [] k \in {"Binary", "Compare"} -> <<node.s.left, node.s.right>>
               [] k \in {"Block", "Call", "CallImport", "Host"} -> node.list
               [] OTHER -> <<>>
  IN  SelectSeq(all, LAMBDA c : c # Null)

C1_Safety ==
  \* at most one hook per node, and only for nodes of the tree
  /\ \A i, j \in DOMAIN log : log[i].node = log[j].node => i = j
  /\ Hooked \subseteq StartTree
  \* a node's hook runs after the hooks of all nodes below it
  /\ \A i \in DOMAIN log :
       \A d \in Sub(start.heap, log[i].node) \ {log[i].node} :
         \E j \in 1..(i - 1) : log[j].node = d
  \* an earlier child's subtree is finished before a later child's is begun
  /\ \A p \in StartTree :
       LET cs == TableChildren(start.heap[p])
       IN  \A x, y \in DOMAIN cs :
             x < y =>
               \A v \in Sub(start.heap, cs[y]) \cap Hooked :
                 \A u \in Sub(start.heap, cs[x]) :
                   u \in Hooked /\ LogPos(u) < LogPos(v)
  \* every node of the tree has had its hook when the walk is over
  /\ pc = "done" => Hooked = StartTree

\* C1: walk terminates, invokes exactly one hook per node of the tree, a
\* node's hook after the hooks of all nodes of its child subtrees, the
\* children taken in the order of the variant table.
C1_PostOrder == []C1_Safety /\ ((pc = "walking") ~> (pc = "done"))

C1_Witness ==
  /\ pc = "done" /\ hooks = "rewriter" /\ Len(log) = 8
  /\ \E i \in DOMAIN log : log[i].seen.kind = "Switch" /\ log[i].ret # log[i].node

\* the hook named after each variant
OwnHook(kind) ==
  CASE kind = "Nop"          -> "walkNop"
    [] kind = "Block"        -> "walkBlock"
    [] kind = "If"           -> "walkIf"
    [] kind = "Loop"         -> "walkLoop"
    [] kind = "Label"        -> "walkLabel"
    [] kind = "Break"        -> "walkBreak"
    [] kind = "Switch"       -> "walkSwitch"
    [] kind = "Call"         -> "walkCall"
    [] kind = "CallImport"   -> "walkCallImport"
    [] kind = "CallIndirect" -> "walkCallIndirect"
    [] kind = "GetLocal"     -> "walkGetLocal"
    [] kind = "SetLocal"     -> "walkSetLocal"
    [] kind = "Load"         -> "walkLoad"
    [] kind = "Store"        -> "walkStore"
    [] kind = "Const"        -> "walkConst"
    [] kind = "Unary"        -> "walkUnary"
    [] kind = "Binary"       -> "walkBinary"
    [] kind = "Compare"      -> "walkCompare"
    [] kind = "Convert"      -> "walkConvert"
    [] kind = "Host"         -> "walkHost"

\* C2: every node is passed to the hook of its own variant and to no other;
\* a CallImport node goes to walkCallImport, not to walkCall.
C2_OwnVariantHook ==
  \A i \in DOMAIN log : log[i].hook = OwnHook(log[i].seen.kind)

\* the optional child slots
OptionalSlots(kind) ==
  CASE kind = "If"    -> {"ifFalse"}
    [] kind = "Break" -> {"condition", "value"}
    [] OTHER          -> {}

\* nodes of the tree with an absent optional slot, as pairs <<node, slot>>
AbsentSlots ==
  {ns \in UNION {{<<n, f>> : f \in OptionalSlots(start.heap[n].kind)} : n \in StartTree} :
     start.heap[ns[1]].s[ns[2]] = Null}

\* C3: for an absent optional slot (If.ifFalse, Break.condition, Break.value)
\* no hook is invoked, the slot stays absent, and the parent's hook and the
\* hooks of the present children are still invoked.
C3_AbsentSlot ==
  /\ \A i \in DOMAIN log : log[i].node # Null
  /\ Len(log) <= Cardinality(StartTree)
  /\ \A ns \in AbsentSlots :
       LET n == ns[1]
           f == ns[2]
       IN  /\ heap[n].s[f] = Null
           /\ pc = "done" => n \in Hooked
           /\ n \in Hooked =>
                /\ log[LogPos(n)].seen.s[f] = Null
                /\ \A c \in Range(KidsOf(start.heap[n])) :
                     c \in Hooked /\ LogPos(c) < LogPos(n)

C3_Witness ==
  /\ pc = "done"
  /\ \E ns \in AbsentSlots : start.heap[ns[1]].kind = "If"
  /\ \E ns \in AbsentSlots :
       /\ start.heap[ns[1]].kind = "Break" /\ ns[2] = "condition"
       /\ start.heap[ns[1]].s.value # Null

\* every child slot of a node: pointer fields, then list elements
AllRefs(node) ==
  LET fs == Fields(node.kind)
  IN  [i \in 1..Len(fs) |-> FieldRef(fs[i])] \o ListRefs(node)

\* C4: each child slot of a visited node holds what the child's hook
\* returned, the parent's hook already sees it there, and startWalk stores
\* what the root's hook returned as the function body.
C4_Replacement ==
  /\ \A i \in DOMAIN log :
       LET p == log[i].node
       IN  \A ref \in Range(AllRefs(start.heap[p])) :
             LET c == GetSlot(start.heap[p], ref)
             IN  c # Null =>
                   /\ c \in Hooked
                   /\ GetSlot(log[i].seen, ref) = log[LogPos(c)].ret
                   /\ GetSlot(heap[p], ref) = log[LogPos(c)].ret
  /\ pc = "done" => body = log[LogPos(start.body)].ret

C4_Witness ==
  /\ pc = "done"
  /\ body # start.body
  /\ \E i \in 1..(Len(log) - 1) : log[i].ret \notin DOMAIN start.heap

\* C5: with the default hooks the tree, the function body and the printed
\* text of the function are the same after any number of walks as before.
C5_IdentityWalk ==
  hooks = "default" =>
    /\ heap = orig.heap
    /\ body = orig.body
    /\ printFunction(heap, body) = printFunction(orig.heap, orig.body)

C5_Witness ==
  hooks = "default" /\ pc = "done" /\ walks = 2 /\ Len(log) = 8

-----------------------------------------------------------------------------
(* Properties of the Arena *)

\* C6: every region returned since construction or the last clear() starts at
\* a multiple of 8, lies inside its chunk's 10000 bytes and is disjoint from
\* the others; the first alloc after clear() starts a fresh chunk at offset 0
\* although clear() leaves the cursor where it was.
C6_Regions ==
  /\ \A i \in DOMAIN regions :
       /\ regions[i].start % 8 = 0
       /\ regions[i].start >= 0
       /\ regions[i].start + regions[i].size <= CHUNK
       /\ regions[i].start + regions[i].currSize <= CHUNK
       /\ regions[i].chunk \in Range(chunks)
  /\ \A i, j \in DOMAIN regions :
       (i < j /\ regions[i].chunk = regions[j].chunk) =>
         \/ regions[i].start + regions[i].currSize <= regions[j].start
         \/ regions[j].start + regions[j].currSize <= regions[i].start
  /\ (lastOp.op = "alloc" /\ lastOp.chunksBefore = 0) =>
       /\ Len(chunks) = 1
       /\ Len(regions) = 1
       /\ regions[1].start = 0

\* an alloc, a clear(), then three allocs reaching into a second chunk
C6_Witness ==
  /\ lastOp.op = "alloc"
  /\ Len(regions) = 3 /\ allocs = 5
  /\ regions[1].start = 0
  /\ regions[2].start > 0
  /\ regions[3].chunk = 2

\* whether the last alloc opened a chunk, and whether it reset the cursor
Opened == Len(chunks) = lastOp.chunksBefore + 1
Placed == Len(chunks) = lastOp.chunksBefore
Remaining == CHUNK - lastOp.indexBefore

\* C7 as stated: alloc opens a new chunk and resets the cursor exactly when no
\* chunk exists or the rounded size is larger than the bytes remaining; a size
\* that fits, also one that fills the chunk exactly, goes into the current chunk.
C7_NewChunkWhenLarger ==
  lastOp.op = "alloc" =>
    IF lastOp.chunksBefore = 0 \/ lastOp.currSize > Remaining
    THEN Opened /\ index = lastOp.currSize
    ELSE Placed /\ index = lastOp.indexBefore + lastOp.currSize

\* C7 as amended: alloc opens a new chunk and resets the cursor exactly when
\* no chunk exists or the rounded size is at least the bytes remaining; only a
\* size strictly smaller than the remaining room goes into the current chunk.
C7_NewChunkWhenNotSmaller ==
  lastOp.op = "alloc" =>
    IF lastOp.chunksBefore = 0 \/ lastOp.currSize >= Remaining
    THEN Opened /\ index = lastOp.currSize
    ELSE Placed /\ index = lastOp.indexBefore + lastOp.currSize

\* an alloc whose rounded size is exactly the room that remained
C7_Witness ==
  /\ lastOp.op = "alloc" /\ lastOp.chunksBefore > 0
  /\ lastOp.currSize = Remaining
  /\ Opened

-----------------------------------------------------------------------------
(* Properties of the printer *)

Printed == heap[body]

\* the mnemonic of a printed form: what follows the "(" up to the alignment
\* annotation or the end of the line
Mnemonic ==
  LET stops == {i \in DOMAIN pout.text : pout.text[i] \in {" align=", "\n"}}
      k == IF stops = {} THEN Len(pout.text) + 1
           ELSE CHOOSE i \in stops : \A j \in stops : i <= j
  IN  Cat(SubSeq(pout.text, 2, k - 1))

\* the type prefix of a load/store of the given width
AccessType(bytes, float_) ==
  CASE bytes < 4 \/ (bytes = 4 /\ ~float_) -> "i32"
    [] bytes = 4 /\ float_                 -> "f32"
    [] bytes = 8 /\ ~float_                -> "i64"
    [] bytes = 8 /\ float_                 -> "f64"

WidthSuffix(bytes) ==
  IF bytes = 1 THEN "8" ELSE IF bytes = 2 THEN "16" ELSE ""

\* C8: the load/store mnemonic is <type of (bytes, float_)>.load/.store, then
\* 8 for 1 byte and 16 for 2 bytes, then for loads below 4 bytes _s or _u;
\* 4- and 8-byte loads and all stores carry no signedness suffix.
C8_AccessMnemonic ==
  (pout.done /\ Printed.kind \in {"Load", "Store"}
     /\ Printed.attr.bytes \in {1, 2, 4, 8}) =>
    LET a == Printed.attr
    IN  IF Printed.kind = "Load"
        THEN Mnemonic = AccessType(a.bytes, a.float_) \o ".load"
                          \o WidthSuffix(a.bytes)
                          \o (IF a.bytes < 4
                              THEN (IF a.signed_ THEN "_s" ELSE "_u") ELSE "")
        ELSE Mnemonic = AccessType(a.bytes, a.float_) \o ".store"
                          \o WidthSuffix(a.bytes)

\* a 1-byte signed load, an 8-byte float load or a 2-byte store was printed
C8_Witness ==
  /\ pout.done
  /\ \/ Printed.kind = "Load" /\ Mnemonic = "i32.load8_s"
     \/ Printed.kind = "Load" /\ Mnemonic = "f64.load"
     \/ Printed.kind = "Store" /\ Mnemonic = "i32.store16"
     \/ Printed.kind = "Load" /\ Mnemonic = "f32.load"

\* the name of each operator the printer supports
OpName(kind, op) ==
  CASE kind = "Unary"   -> UnaryOpText(op)
    [] kind = "Binary"  -> BinaryOpText(op)
    [] kind = "Compare" -> RelationalOpText(op)
    [] kind = "Convert" ->
         CASE op = "ConvertUInt32" -> "convert_u/i32"
           [] op = "ConvertSInt32" -> "convert_s/i32"
           [] op = "TruncSFloat64" -> "trunc_s/f64"
           [] OTHER                -> "abort"

PrintedOperator ==
  /\ pout.done
  /\ Printed.kind \in {"Unary", "Binary", "Compare", "Convert"}
  /\ OpName(Printed.kind, Printed.attr.op) # "abort"

\* C9 as stated: the mnemonic of a Unary, Binary, Compare or Convert node with
\* a supported operator is <name of the node's output type>.<operator name>.
C9_ResultTypeMnemonic ==
  PrintedOperator =>
    Mnemonic = Printed.attr.type \o "." \o OpName(Printed.kind, Printed.attr.op)

\* C9 as amended: for Unary and Binary the mnemonic is <output type>.<op>; for
\* Compare it is <inputType>.<op>, the operand type and not the i32 output
\* type; for Convert it is the fixed text of the operator, whatever the type.
C9_MnemonicByKind ==
  PrintedOperator =>
    LET a == Printed.attr
    IN  CASE Printed.kind \in {"Unary", "Binary"} ->
               Mnemonic = a.type \o "." \o OpName(Printed.kind, a.op)
          [] Printed.kind = "Compare" ->
               Mnemonic = a.inputType \o "." \o OpName("Compare", a.op)
          [] Printed.kind = "Convert" ->
               Mnemonic = (CASE a.op = "ConvertUInt32" -> "f64.convert_u/i32"
                             [] a.op = "ConvertSInt32" -> "f64.convert_s/i32"
                             [] a.op = "TruncSFloat64" -> "i32.trunc_s/f64")

\* a Compare of f64 operands was printed
C9_Witness ==
  /\ PrintedOperator
  /\ Printed.kind = "Compare" /\ Printed.attr.inputType = "f64"
  /\ Printed.attr.type = "i32" /\ Printed.attr.op = "Lt"

\* the text the number formatter returned for the printed literal, and the
\* characters written for it: those between ".const " and the closing ")"
FormatterText == Printed.attr.value.text
Emitted == SubSeq(pout.text, 4, Len(pout.text) - 1)
StartsWith(t, p) == Len(t) >= Len(p) /\ SubSeq(t, 1, Len(p)) = p
Unsigned(t) == IF StartsWith(t, <<"-">>) THEN Tail(t) ELSE t
PrintedFloat ==
  /\ pout.done /\ Printed.kind = "Const"
  /\ Printed.attr.value.type \in {"f32", "f64"}

\* C10: printDouble writes 0 then t when t begins with '.', -0 then t without
\* its '-' when t begins with '-.', and t itself otherwise; what it writes
\* never begins with '.' or '-.' and keeps t's characters after the sign.
C10_FloatNormalization ==
  PrintedFloat =>
    LET t == FormatterText
    IN  /\ StartsWith(t, <<".">>) => Emitted = <<"0">> \o t
        /\ StartsWith(t, <<"-", ".">>) => Emitted = <<"-", "0">> \o Tail(t)
        /\ (~StartsWith(t, <<".">>) /\ ~StartsWith(t, <<"-", ".">>)) => Emitted = t
        /\ ~StartsWith(Emitted, <<".">>)
        /\ ~StartsWith(Emitted, <<"-", ".">>)
        /\ LET u == Unsigned(t)
           IN  SubSeq(Emitted, Len(Emitted) - Len(u) + 1, Len(Emitted)) = u

\* -.5 was printed as -0.5
C10_Witness ==
  /\ PrintedFloat
  /\ FormatterText = <<"-", ".", "5">>
  /\ Emitted = <<"-", "0", ".", "5">>

\* the nodes of the printed tree, and the accesses among them with an offset
PrintedTree == Sub(heap, body)
OffsetAccess(n) ==
  heap[n].kind \in {"Load", "Store"} /\ heap[n].attr.offset # 0
\* every node of the tree is reached by the printer: no form above it drops
\* children (Switch) or lacks a print function (Label, Host)
AllReached ==
  \A n \in PrintedTree : heap[n].kind \notin {"Switch", "Label", "Host"}

\* C11: printing a tree that holds a Load or Store with a non-zero offset ends
\* in the fatal state, so no text with the offset dropped is produced; printing
\* a Load or Store of offset 0 and width 1, 2, 4 or 8 does not end in the fatal
\* state.  (Stated for the builds in which printFullLine returns to its
\* caller, so that the only fatal exits in question are those of the access.)
C11_OffsetFatal ==
  (pout.done /\ ~trapUB) =>
    /\ (AllReached /\ \E n \in PrintedTree : OffsetAccess(n)) => pout.fatal
    /\ (Printed.kind \in {"Load", "Store"} /\ Printed.attr.offset = 0
          /\ Printed.attr.bytes \in {1, 2, 4, 8}
          /\ \A c \in Range(KidsOf(Printed)) :
               heap[c].kind \in {"GetLocal", "Const"}) => ~pout.fatal

\* the variants that have child slots
WithChildren ==
  {"Block", "If", "Loop", "Break", "Switch", "Call", "CallImport",
   "CallIndirect", "SetLocal", "Load", "Store", "Unary", "Binary", "Compare",
   "Convert", "Host"}

\* a text without its indentation
NoIndent(text) == SelectSeq(text, LAMBDA t : t # "  ")

\* what follows the first line of the printed form, without the closing ")"
BodyText ==
  LET nls == {i \in DOMAIN pout.text : pout.text[i] = "\n"}
  IN  IF nls = {} THEN <<>>
      ELSE SubSeq(pout.text, (CHOOSE i \in nls : \A j \in nls : i <= j) + 1,
                  Len(pout.text) - 1)

\* one line per child: the child's own text, then the end of the line
RECURSIVE ChildLines(_)
ChildLines(cs) ==
  IF cs = <<>> THEN <<>>
  ELSE NoIndent(print(heap, Head(cs), 1).text) \o <<"\n">>
         \o ChildLines(Tail(cs))

PrintedWhole == pout.done /\ ~pout.fatal

\* C12: a printed node of a variant with children is followed by one line for
\* each present child, in the order of the variant table, each child once and
\* nothing for an absent one; for a Switch these are the scrutinee, the case
\* bodies in declaration order and the default body.
C12_ChildrenPrinted ==
  (PrintedWhole /\ Printed.kind \in WithChildren) =>
    NoIndent(BodyText) = ChildLines(TableChildren(Printed))

\* the printed text as lines: where each line starts, how many indentation
\* units ("  ") it starts with, and the token after them
OutLen == Len(pout.text)
LineStarts ==
  {1} \cup {i + 1 : i \in {j \in 1..(OutLen - 1) : pout.text[j] = "\n"}}
RECURSIVE IndentAt(_)
IndentAt(p) ==
  IF p <= OutLen /\ pout.text[p] = "  " THEN 1 + IndentAt(p + 1) ELSE 0
FirstToken(p) ==
  LET q == p + IndentAt(p) IN IF q <= OutLen THEN pout.text[q] ELSE ""
LineOf(q) ==
  CHOOSE p \in LineStarts : p <= q /\ \A r \in LineStarts : r <= q => r <= p

\* forms opened and not yet closed in the tokens a..b
Count(tok, a, b) == Cardinality({i \in a..b : pout.text[i] = tok})
OpenIn(a, b) == Count("(", a, b) - Count(")", a, b)
\* the depth d + 1 of a line: the forms open when the line starts
OpenBefore(p) == OpenIn(1, p - 1)

\* C13: a line that starts a form (a child of the form opened at depth d, or
\* the root at depth 0) is indented by as many units as there are forms open,
\* d + 1 for a child; a ")" that starts a line is alone on it and indented by
\* d, the depth of the line that opened the form it closes; every other ")"
\* closes a form opened on the same line; siblings are indented alike (the
\* caller's indent is unchanged by a child); and in a text printed to the end
\* the parentheses match.
C13_Indentation ==
  pout.done =>
    /\ \A p \in LineStarts :
         /\ FirstToken(p) = "(" => IndentAt(p) = OpenBefore(p)
         /\ FirstToken(p) = ")" =>
              LET q == p + IndentAt(p)
              IN  /\ IndentAt(p) = OpenBefore(p) - 1
                  /\ q = OutLen \/ pout.text[q + 1] = "\n"
    /\ \A q \in 1..OutLen :
         (pout.text[q] = ")" /\ q # LineOf(q) + IndentAt(LineOf(q))) =>
           OpenIn(LineOf(q), q - 1) >= 1
    /\ \A q \in 1..OutLen : OpenBefore(q + 1) >= 0
    /\ ~pout.fatal => OpenBefore(OutLen + 1) = 0

\* a tree three forms deep was printed to the end: a line at depth 2 and the
\* closing lines at depths 1 and 0
C13_Witness ==
  /\ PrintedWhole
  /\ \E p \in LineStarts : FirstToken(p) = "(" /\ IndentAt(p) = 2
  /\ \E p \in LineStarts : FirstToken(p) = ")" /\ IndentAt(p) = 1
  /\ \E p \in LineStarts : FirstToken(p) = ")" /\ IndentAt(p) = 0

====
